---- MODULE Spec2Model ----
(***************************************************************************)
(* Chrome disk-cache reader: fanficfare/chromagnon/cacheParse.py.          *)
(*                                                                         *)
(* Spec   : parse(path, urls) -- the walk over the index table and the     *)
(*          collision chains, in full-enumeration and targeted mode.       *)
(* SpecCC : ChromeCache -- __init__ building hash_cache from the entries   *)
(*          parse returned, and get_cached_file.                           *)
(***************************************************************************)
EXTENDS Integers, Sequences, FiniteSets, TLC

VARIABLES blockType,                   \* the type in the index file's header
          tableSize, table, disk,      \* the on-disk snapshot (read-only)
          mode, urls,                  \* parse's argument: urls = None is mode "full"
          pc, key, u, hash, entry,     \* parse's locals and position
          hops,                        \* next-pointers followed in the current chain
          cache, stderr, error,        \* parse's result, its stderr, a raised exception
          self_cache, hash_cache,      \* ChromeCache's fields
          ccpc, url, result            \* ChromeCache: position, last url asked, last outcome

parseVars == <<blockType, tableSize, table, disk, mode, urls, pc, key, u, hash, entry,
               hops, cache, stderr, error>>

ccVars == <<self_cache, hash_cache, ccpc, url, result>>

vars == <<parseVars, ccVars>>

---------------------------------------------------------------------------
(* Bounds *)

\* entry addresses present in the block files
NumEntries == 2
\* longest url list handed to parse
MaxUrls == 1
\* most entries in the list a ChromeCache is built from
MaxEntries == 2
\* most data slots of an entry
MaxSlots == 2

---------------------------------------------------------------------------
(* Address tokens and the snapshot *)

\* A 32-bit address token is kept as its top bit (0x80000000, "initialized")
\* and its low 31 bits: the value is hi * 2^31 + lo.
Token(hi, lo) == [hi |-> hi, lo |-> lo]
Null == Token(0, 0)
\* addr & 0x80000000
TopBitOf(tok) == tok.hi

RECURSIVE BitAnd(_, _)
BitAnd(a, b) ==
    IF a = 0 \/ b = 0 THEN 0
    ELSE (a % 2) * (b % 2) + 2 * BitAnd(a \div 2, b \div 2)

\* initialized tokens that address an entry record
Addrs == {Token(1, n) : n \in 1..NumEntries}
\* a nonzero token whose top bit is clear
UninitTokens == {Token(0, 1)}
Tokens == {Null} \cup UninitTokens \cup Addrs

\* cacheBlock.tableSize: a power of two read from the index header
TableSizes == {1, 2}

\* stored hashes: two values that fall into the same bucket for every table size
EntryHashes == {1, 3}
\* hashes of requested urls: the two above and one of another bucket
UrlHashes == {1, 2, 3}

None == [none |-> TRUE]
Corrupt == [corrupt |-> TRUE]
NoEntry == [addr |-> Null]

\* exceptions that leave parse
NoError == [kind |-> "none"]
InvalidIndex == [kind |-> "Invalid Index File"]
DecodeError(tok) == [kind |-> "decode", addr |-> tok]

\* what the block files hold at an address: an entry record's hash and next
\* fields, or bytes that do not decode
Records == [hash : EntryHashes, next : {Null} \cup Addrs] \cup {Corrupt}

\* a snapshot: every nonzero token's bytes (an uninitialized token never
\* heads a chain longer than its own record)
Disks ==
    {d \in [UninitTokens \cup Addrs -> Records] :
        \A t \in UninitTokens : IF d[t] = Corrupt THEN TRUE ELSE d[t].next = Null}

\* CacheEntry(CacheAddress(tok, path)): the decoded entry, or an exception
CanDecode(tok) == disk[tok] # Corrupt
CacheEntry(tok) == [addr |-> tok, hash |-> disk[tok].hash, next |-> disk[tok].next]

\* SuperFastHash.superFastHash(url): a url is known to the walk by its hash only
superFastHash(data) == data.hash

Urls == [hash : UrlHashes]

RECURSIVE SeqsUpTo(_, _)
SeqsUpTo(S, n) ==
    IF n = 0 THEN {<<>>}
    ELSE LET shorter == SeqsUpTo(S, n - 1)
         IN shorter \cup {Append(s, x) : s \in {t \in shorter : Len(t) = n - 1}, x \in S}

\* the longest walk an acyclic chain allows is NumEntries hops; the model follows
\* a chain one hop further and then stops exploring it
HopCap == NumEntries + 1

---------------------------------------------------------------------------
(* parse(path, urls) *)

Init ==
    /\ blockType \in {"INDEX", "BLOCK"}
    /\ tableSize \in TableSizes
    /\ table \in [1..tableSize -> Tokens]
    /\ disk \in Disks
    /\ mode = "idle"
    /\ urls = <<>>
    /\ pc = "idle"
    /\ key = 0
    /\ u = 1
    /\ hash = 0
    /\ entry = NoEntry
    /\ hops = 0
    /\ cache = <<>>
    /\ stderr = <<>>
    /\ error = NoError
    /\ self_cache = <<>>
    /\ hash_cache = <<>>
    /\ ccpc = "off"
    /\ url = None
    /\ result = None

\* parse(path), urls == None: the type check, then the table from its start
ParseAll ==
    /\ UNCHANGED ccVars
    /\ pc = "idle"
    /\ mode' = "full"
    /\ IF blockType # "INDEX"
       THEN pc' = "raised" /\ error' = InvalidIndex
       ELSE pc' = "full_for" /\ UNCHANGED error
    /\ UNCHANGED <<blockType, tableSize, table, disk, urls, key, u, hash, entry,
                   hops, cache, stderr>>

\* parse(path, urls): the type check, then the urls in order
ParseUrls ==
    /\ UNCHANGED ccVars
    /\ pc = "idle"
    /\ \E us \in SeqsUpTo(Urls, MaxUrls) : urls' = us
    /\ mode' = "lookup"
    /\ IF blockType # "INDEX"
       THEN pc' = "raised" /\ error' = InvalidIndex
       ELSE pc' = "lookup_for" /\ UNCHANGED error
    /\ UNCHANGED <<blockType, tableSize, table, disk, key, u, hash, entry, hops,
                   cache, stderr>>

\* for key in range(tableSize): raw = read; if raw != 0: entry = CacheEntry(...)
FullBucket ==
    /\ UNCHANGED ccVars
    /\ pc = "full_for"
    /\ key < tableSize
    /\ LET raw == table[key + 1] IN
       IF raw # Null
       THEN IF CanDecode(raw)
            THEN /\ entry' = CacheEntry(raw)
                 /\ pc' = "full_while"
                 /\ hops' = 0
                 /\ UNCHANGED <<key, error>>
            ELSE /\ pc' = "raised"
                 /\ error' = DecodeError(raw)
                 /\ UNCHANGED <<key, entry, hops>>
       ELSE /\ key' = key + 1
            /\ UNCHANGED <<pc, entry, hops, error>>
    /\ UNCHANGED <<blockType, tableSize, table, disk, mode, urls, u, hash, cache, stderr>>

\* mutant: the two statements of the loop body swapped
FullHop_AppendAfterMove ==
    /\ UNCHANGED ccVars
    /\ pc = "full_while"
    /\ entry.next # Null
    /\ hops < HopCap
    /\ IF CanDecode(entry.next)
       THEN /\ entry' = CacheEntry(entry.next)
            /\ cache' = Append(cache, entry')
            /\ hops' = hops + 1
            /\ UNCHANGED <<pc, error>>
       ELSE /\ pc' = "raised"
            /\ error' = DecodeError(entry.next)
            /\ UNCHANGED <<entry, hops, cache>>
    /\ UNCHANGED <<blockType, tableSize, table, disk, mode, urls, key, u, hash, stderr>>

\* while entry.next != 0: cache.append(entry); entry = CacheEntry(entry.next)
FullHop ==
    /\ UNCHANGED ccVars
    /\ pc = "full_while"
    /\ entry.next # Null
    /\ hops < HopCap
    /\ cache' = Append(cache, entry)
    /\ IF CanDecode(entry.next)
       THEN /\ entry' = CacheEntry(entry.next)
            /\ hops' = hops + 1
            /\ UNCHANGED <<pc, error>>
       ELSE /\ pc' = "raised"
            /\ error' = DecodeError(entry.next)
            /\ UNCHANGED <<entry, hops>>
    /\ UNCHANGED <<blockType, tableSize, table, disk, mode, urls, key, u, hash, stderr>>

\* mutant: the append after the loop is left out
FullEnd_DropLast ==
    /\ UNCHANGED ccVars
    /\ pc = "full_while"
    /\ entry.next = Null
    /\ key' = key + 1
    /\ pc' = "full_for"
    /\ UNCHANGED <<blockType, tableSize, table, disk, mode, urls, u, hash, entry, hops,
                   cache, stderr, error>>

\* the loop's exit: cache.append(entry), then the next key
FullEnd ==
    /\ UNCHANGED ccVars
    /\ pc = "full_while"
    /\ entry.next = Null
    /\ cache' = Append(cache, entry)
    /\ key' = key + 1
    /\ pc' = "full_for"
    /\ UNCHANGED <<blockType, tableSize, table, disk, mode, urls, u, hash, entry, hops,
                   stderr, error>>

\* index.close(); return cache
FullReturn ==
    /\ UNCHANGED ccVars
    /\ pc = "full_for"
    /\ key = tableSize
    /\ pc' = "done"
    /\ UNCHANGED <<blockType, tableSize, table, disk, mode, urls, key, u, hash, entry,
                   hops, cache, stderr, error>>

\* for url in urls: hash, key, addr; the initialized check; the head's decode
LookupUrl ==
    /\ UNCHANGED ccVars
    /\ pc = "lookup_for"
    /\ u <= Len(urls)
    /\ LET h == superFastHash(urls[u])
           k == BitAnd(h, tableSize - 1)
           addr == table[k + 1]
       IN /\ hash' = h
          /\ key' = k
          /\ IF TopBitOf(addr) = 0
             THEN /\ stderr' = Append(stderr, urls[u])
                  /\ u' = u + 1
                  /\ UNCHANGED <<pc, entry, hops, error>>
             ELSE /\ IF CanDecode(addr)
                     THEN /\ entry' = CacheEntry(addr)
                          /\ pc' = "lookup_while"
                          /\ hops' = 0
                          /\ UNCHANGED error
                     ELSE /\ pc' = "raised"
                          /\ error' = DecodeError(addr)
                          /\ UNCHANGED <<entry, hops>>
                  /\ UNCHANGED <<u, stderr>>
    /\ UNCHANGED <<blockType, tableSize, table, disk, mode, urls, cache>>

\* while entry.hash != hash and entry.next != 0: entry = CacheEntry(entry.next)
LookupHop ==
    /\ UNCHANGED ccVars
    /\ pc = "lookup_while"
    /\ entry.hash # hash /\ entry.next # Null
    /\ hops < HopCap
    /\ IF CanDecode(entry.next)
       THEN /\ entry' = CacheEntry(entry.next)
            /\ hops' = hops + 1
            /\ UNCHANGED <<pc, error>>
       ELSE /\ pc' = "raised"
            /\ error' = DecodeError(entry.next)
            /\ UNCHANGED <<entry, hops>>
    /\ UNCHANGED <<blockType, tableSize, table, disk, mode, urls, key, u, hash, cache, stderr>>

\* mutant: the entry the walk stopped at is appended without the hash test
LookupEnd_AppendAlways ==
    /\ UNCHANGED ccVars
    /\ pc = "lookup_while"
    /\ ~(entry.hash # hash /\ entry.next # Null)
    /\ cache' = Append(cache, entry)
    /\ u' = u + 1
    /\ pc' = "lookup_for"
    /\ UNCHANGED <<blockType, tableSize, table, disk, mode, urls, key, hash, entry, hops,
                   stderr, error>>

\* the loop's exit: if entry.hash == hash: cache.append(entry), then the next url
LookupEnd ==
    /\ UNCHANGED ccVars
    /\ pc = "lookup_while"
    /\ ~(entry.hash # hash /\ entry.next # Null)
    /\ cache' = IF entry.hash = hash THEN Append(cache, entry) ELSE cache
    /\ u' = u + 1
    /\ pc' = "lookup_for"
    /\ UNCHANGED <<blockType, tableSize, table, disk, mode, urls, key, hash, entry, hops,
                   stderr, error>>

\* index.close(); return cache
LookupReturn ==
    /\ UNCHANGED ccVars
    /\ pc = "lookup_for"
    /\ u > Len(urls)
    /\ pc' = "done"
    /\ UNCHANGED <<blockType, tableSize, table, disk, mode, urls, key, u, hash, entry,
                   hops, cache, stderr, error>>

Next ==
    \/ ParseAll
    \/ ParseUrls
    \/ FullBucket
    \/ FullHop
    \/ FullEnd
    \/ FullReturn
    \/ LookupUrl
    \/ LookupHop
    \/ LookupEnd
    \/ LookupReturn

Spec == Init /\ [][Next]_vars

---------------------------------------------------------------------------
(* ChromeCache *)

\* entry.keyToStr(): a key is kept as the three things the code looks at --
\* whether 'fanfiction.net' occurs in it, whether it starts with
\* https://www.fanfiction.net/s/<digits>/<digits>/ , and what follows that
\* prefix (for other keys: the whole remainder).
Key(ffn, story, rest) == [ffn |-> ffn, story |-> story, rest |-> rest]
Keys ==
    {Key(TRUE, TRUE, ""), Key(TRUE, TRUE, "A"), Key(TRUE, TRUE, "B"),
     Key(TRUE, FALSE, "u/9"), Key(FALSE, FALSE, "s/1/1/A"),
     \* the pattern's dots match any character: https://www.fanfiction-net/s/1/1/A
     Key(FALSE, TRUE, "A")}

\* 'fanfiction.net' in key
ContainsFanfictionNet(k) == k.ffn

\* re.sub(r'^(https://www.fanfiction.net/s/\d+/\d+/).+$', r'\1', key): the
\* pattern needs at least one character after the prefix
normkey(k) ==
    IF k.story /\ k.rest # "" THEN Key(k.ffn, k.story, "") ELSE k

\* byte strings: a body as stored, raw or as a gzip or Brotli stream
Blobs == [fmt : {"raw", "gzip", "br"}, body : {"P"}]

\* gzip.decompress(data) and brotli_decompress(data): the plain body of a
\* stream of their own format, an exception for any other bytes
Inflates(fmt, data) == data.fmt = fmt
Inflate(data) == [fmt |-> "raw", body |-> data.body]

\* entry.httpHeader: None, or an object whose headers may name a content-encoding
Headers ==
    {[content_type |-> "text/html"]} \cup
    [content_type : {"text/html"}, content_encoding : {"gzip", "br", "identity", "deflate"}]
HttpHeaders == {None} \cup [headers : Headers]

\* entry.data: CacheData slots, by type and by what data() reads
Slots ==
    {[type |-> "HEADER", bytes |-> [fmt |-> "raw", body |-> "P"]]} \cup
    [type : {"UNKNOWN"}, bytes : Blobs]

DefaultHeader == [headers |-> [content_type |-> "text/html"]]
DefaultData ==
    <<[type |-> "HEADER", bytes |-> [fmt |-> "raw", body |-> "P"]],
      [type |-> "UNKNOWN", bytes |-> [fmt |-> "raw", body |-> "P"]]>>

SlotLists == SeqsUpTo(Slots, MaxSlots)

\* a list parse(path) may return to __init__: entries of distinct addresses
\* with keys ks; the last entry with header h and data slots d, the ones before
\* it with a plain header and body
Cache(ks, h, d) ==
    [n \in 1..Len(ks) |->
        [addr |-> n,
         key |-> ks[n],
         httpHeader |-> IF n = Len(ks) THEN h ELSE DefaultHeader,
         data |-> IF n = Len(ks) THEN d ELSE DefaultData]]

Put(f, k, v) == [x \in DOMAIN f \cup {k} |-> IF x = k THEN v ELSE f[x]]

\* mutant: the 'fanfiction.net' filter is left out
RECURSIVE BuildHashCache_NoFilter(_, _)
BuildHashCache_NoFilter(c, n) ==
    IF n = 0 THEN <<>>
    ELSE LET hc == BuildHashCache_NoFilter(c, n - 1)
             k == c[n].key
         IN Put(Put(hc, k, c[n]), normkey(k), c[n])

\* the loop of __init__ over the first n entries of the list
RECURSIVE BuildHashCache(_, _)
BuildHashCache(c, n) ==
    IF n = 0 THEN <<>>
    ELSE LET hc == BuildHashCache(c, n - 1)
             k == c[n].key
         IN IF ~ContainsFanfictionNet(k) THEN hc
            ELSE Put(Put(hc, k, c[n]), normkey(k), c[n])

Return(v) == [kind |-> "return", value |-> v]
Raise(what) == [kind |-> "raise", value |-> what]

\* mutant: the test for a missing httpHeader is left out
Body_NoNoneCheck(e, data) ==
    IF e.httpHeader = None THEN Raise("AttributeError")
    ELSE IF "content_encoding" \in DOMAIN e.httpHeader.headers
    THEN IF e.httpHeader.headers.content_encoding = "gzip"
         THEN IF Inflates("gzip", data) THEN Return(Inflate(data)) ELSE Raise("gzip")
         ELSE IF e.httpHeader.headers.content_encoding = "br"
         THEN IF Inflates("br", data) THEN Return(Inflate(data)) ELSE Raise("br")
         ELSE Return(data)
    ELSE Return(data)

\* the body of the loop of get_cached_file for a slot of type UNKNOWN
Body(e, data) ==
    IF e.httpHeader # None /\ "content_encoding" \in DOMAIN e.httpHeader.headers
    THEN IF e.httpHeader.headers.content_encoding = "gzip"
         THEN IF Inflates("gzip", data) THEN Return(Inflate(data)) ELSE Raise("gzip")
         ELSE IF e.httpHeader.headers.content_encoding = "br"
         THEN IF Inflates("br", data) THEN Return(Inflate(data)) ELSE Raise("br")
         ELSE Return(data)
    ELSE Return(data)

\* for i in range(len(entry.data)): from slot n on
RECURSIVE ScanSlots(_, _)
ScanSlots(e, n) ==
    IF n > Len(e.data) THEN Return(None)
    ELSE IF e.data[n].type = "UNKNOWN" THEN Body(e, e.data[n].bytes)
    ELSE ScanSlots(e, n + 1)

get_cached_file(hc, asked) ==
    IF asked \in DOMAIN hc THEN ScanSlots(hc[asked], 1) ELSE Return(None)

InitCC ==
    /\ blockType = "INDEX"
    /\ tableSize = 1
    /\ table = <<Null>>
    /\ disk = [t \in UninitTokens \cup Addrs |-> Corrupt]
    /\ mode = "idle"
    /\ urls = <<>>
    /\ pc = "off"
    /\ key = 0
    /\ u = 1
    /\ hash = 0
    /\ entry = NoEntry
    /\ hops = 0
    /\ cache = <<>>
    /\ stderr = <<>>
    /\ error = NoError
    /\ \E ks \in SeqsUpTo(Keys, MaxEntries), h \in HttpHeaders, d \in SlotLists :
          self_cache = Cache(ks, h, d)
    /\ hash_cache = <<>>
    /\ ccpc = "new"
    /\ url = None
    /\ result = None

\* ChromeCache.__init__ once parse(path) has returned self.cache
ChromeCacheInit ==
    /\ ccpc = "new"
    /\ hash_cache' = BuildHashCache(self_cache, Len(self_cache))
    /\ ccpc' = "ready"
    /\ UNCHANGED <<self_cache, url, result>>
    /\ UNCHANGED parseVars

\* ChromeCache.get_cached_file(url)
GetCachedFile ==
    /\ ccpc = "ready"
    /\ \E asked \in Keys :
          /\ url' = asked
          /\ result' = get_cached_file(hash_cache, asked)
    /\ UNCHANGED <<self_cache, hash_cache, ccpc>>
    /\ UNCHANGED parseVars

NextCC ==
    \/ ChromeCacheInit
    \/ GetCachedFile

SpecCC == InitCC /\ [][NextCC]_vars

---------------------------------------------------------------------------
(* The snapshot's chains, read off the disk without walking *)

\* the longest chain without a repeated address: an uninitialized head and
\* every entry address
MaxChain == NumEntries + 1

\* the entries from tok to the chain's end, in chain order
RECURSIVE ChainFrom(_, _)
ChainFrom(tok, fuel) ==
    IF tok = Null \/ fuel = 0 THEN <<>>
    ELSE IF ~CanDecode(tok) THEN <<>>
    ELSE <<CacheEntry(tok)>> \o ChainFrom(disk[tok].next, fuel - 1)

\* the chain from tok reaches next = 0 through records that decode
RECURSIVE Terminates(_, _)
Terminates(tok, fuel) ==
    IF tok = Null THEN TRUE
    ELSE IF fuel = 0 THEN FALSE
    ELSE CanDecode(tok) /\ Terminates(disk[tok].next, fuel - 1)

ChainAddrs(tok) ==
    LET c == ChainFrom(tok, MaxChain) IN {c[n].addr : n \in 1..Len(c)}

RECURSIVE AllChains(_)
AllChains(b) ==
    IF b = 0 THEN <<>>
    ELSE AllChains(b - 1) \o ChainFrom(table[b], MaxChain)

\* the first entry from tok on whose stored hash is h, as a list of at most one
RECURSIVE FirstMatch(_, _, _)
FirstMatch(tok, h, fuel) ==
    IF tok = Null \/ fuel = 0 THEN <<>>
    ELSE IF ~CanDecode(tok) THEN <<>>
    ELSE IF disk[tok].hash = h THEN <<CacheEntry(tok)>>
    ELSE FirstMatch(disk[tok].next, h, fuel - 1)

BucketHead(h) == table[(h % tableSize) + 1]

RECURSIVE Lookups(_)
Lookups(n) ==
    IF n = 0 THEN <<>>
    ELSE Lookups(n - 1) \o
         (IF TopBitOf(BucketHead(urls[n].hash)) = 0 THEN <<>>
          ELSE FirstMatch(BucketHead(urls[n].hash), urls[n].hash, MaxChain))

WellFormed ==
    /\ \A b \in 1..tableSize : Terminates(table[b], MaxChain)
    /\ \A b1, b2 \in 1..tableSize :
          b1 # b2 => ChainAddrs(table[b1]) \cap ChainAddrs(table[b2]) = {}

---------------------------------------------------------------------------
(* Claims about parse *)

\* C1: a chain walk, in either mode, follows no more next tokens than a chain
\* without a repeated address has (a cyclic chain is cut off and reported
\* instead of being followed forever).
C1_ChainWalkBounded == hops <= NumEntries

\* C2: when full enumeration returns, its result is the concatenation, in
\* ascending bucket order, of every bucket's chain from the head to next = 0,
\* each entry once and in chain order; a zero head contributes nothing.
C2_FullEnumerationIsAllChains ==
    (mode = "full" /\ pc = "done") => cache = AllChains(tableSize)

C2_Witness ==
    /\ mode = "full" /\ pc = "done"
    /\ tableSize = 2
    /\ table[1] = Null
    /\ Len(cache) = NumEntries
    /\ cache[1].next = cache[2].addr

\* C3: when targeted lookup returns, its result holds, for each url in order
\* whose bucket head is initialized, the first entry in chain order whose
\* stored hash equals the url's hash, and nothing for a url with no such entry.
C3_LookupReturnsFirstMatch ==
    (mode = "lookup" /\ pc = "done") => cache = Lookups(Len(urls))

C3_Witness ==
    /\ mode = "lookup" /\ pc = "done"
    /\ Len(urls) = 1
    /\ TopBitOf(BucketHead(urls[1].hash)) = 1
    /\ disk[BucketHead(urls[1].hash)].hash # urls[1].hash
    /\ disk[BucketHead(urls[1].hash)].next # Null
    /\ cache = <<CacheEntry(disk[BucketHead(urls[1].hash)].next)>>

\* C4: no entry is decoded, and no decode error raised, from a token whose top
\* bit is clear: such a bucket head yields nothing in either mode.
C4_UninitializedHeadNeverDecoded ==
    /\ entry # NoEntry => TopBitOf(entry.addr) = 1
    /\ error.kind = "decode" => TopBitOf(error.addr) = 1

\* C5: in full enumeration a record that fails to decode never ends the run
\* (stated for records at initialized addresses; C4 is about the others).
C5_DecodeFailureDoesNotAbort ==
    ~(/\ mode = "full"
      /\ pc = "raised"
      /\ error.kind = "decode"
      /\ TopBitOf(error.addr) = 1)

\* C6: when targeted lookup returns, every requested url has an outcome: an
\* entry with its hash in the result, or a not-found report.
C6_EveryUrlHasOutcome ==
    (mode = "lookup" /\ pc = "done") =>
        \A n \in 1..Len(urls) :
            \/ \E m \in 1..Len(cache) : cache[m].hash = urls[n].hash
            \/ \E m \in 1..Len(stderr) : stderr[m] = urls[n]

\* C7: over a well-formed snapshot, full enumeration never holds the same
\* entry address twice in its result.
C7_NoAddressTwice ==
    (mode = "full" /\ WellFormed) =>
        \A m, n \in 1..Len(cache) : m # n => cache[m].addr # cache[n].addr

C7_Witness ==
    /\ mode = "full" /\ pc = "done" /\ WellFormed
    /\ tableSize = 2
    /\ table[1] # Null /\ table[2] # Null
    /\ Len(cache) = NumEntries + 1

---------------------------------------------------------------------------
(* Claims about ChromeCache *)

Called == ccpc = "ready" /\ result # None
Asked == hash_cache[url]
UnknownSlots(e) == {n \in 1..Len(e.data) : e.data[n].type = "UNKNOWN"}
FirstUnknown(e) == CHOOSE n \in UnknownSlots(e) : \A m \in UnknownSlots(e) : n <= m
DeclaredEncoding(e) ==
    IF e.httpHeader = None THEN "none"
    ELSE IF "content_encoding" \in DOMAIN e.httpHeader.headers
    THEN e.httpHeader.headers.content_encoding
    ELSE "none"

\* C8: a body declared gzip or br whose bytes do not decompress comes back
\* from get_cached_file as the stored bytes; the failure is not raised.
C8_FailedInflateReturnsStoredBytes ==
    (/\ Called
     /\ url \in DOMAIN hash_cache
     /\ UnknownSlots(Asked) # {}
     /\ DeclaredEncoding(Asked) \in {"gzip", "br"}
     /\ ~Inflates(DeclaredEncoding(Asked), Asked.data[FirstUnknown(Asked)].bytes))
    => result = Return(Asked.data[FirstUnknown(Asked)].bytes)

\* C9: for an entry with no httpHeader, no content-encoding, or an encoding
\* other than gzip and br, get_cached_file returns the bytes of the first data
\* slot of type UNKNOWN unchanged, and raises nothing.
C9_OtherEncodingsReturnBytesUnchanged ==
    (/\ Called
     /\ url \in DOMAIN hash_cache
     /\ UnknownSlots(Asked) # {}
     /\ DeclaredEncoding(Asked) \notin {"gzip", "br"})
    => result = Return(Asked.data[FirstUnknown(Asked)].bytes)

C9_Witness ==
    /\ Called
    /\ url \in DOMAIN hash_cache
    /\ DeclaredEncoding(Asked) = "deflate"
    /\ UnknownSlots(Asked) = {1, 2}
    /\ Asked.data[1].bytes.fmt = "gzip"
    /\ Asked.data[2].bytes.fmt = "raw"
    /\ result = Return(Asked.data[1].bytes)

\* the entries that put themselves under key k, by their exact or normalized key
Sharers(k) ==
    {n \in 1..Len(self_cache) :
        /\ ContainsFanfictionNet(self_cache[n].key)
        /\ self_cache[n].key = k \/ normkey(self_cache[n].key) = k}
Last(S) == CHOOSE n \in S : \A m \in S : m <= n

\* C10: once built, hash_cache holds only entries whose key contains
\* 'fanfiction.net'; the exact and the normalized key of each such entry are
\* keys of it; each key maps to the last entry, in enumeration order, that has
\* it as exact or normalized key; get_cached_file leaves it so and returns
\* None for a url that is not a key.
C10_HashCacheBuiltOnceLastWins ==
    ccpc = "ready" =>
        /\ \A k \in DOMAIN hash_cache : ContainsFanfictionNet(hash_cache[k].key)
        /\ \A n \in 1..Len(self_cache) :
              ContainsFanfictionNet(self_cache[n].key) =>
                  /\ self_cache[n].key \in DOMAIN hash_cache
                  /\ normkey(self_cache[n].key) \in DOMAIN hash_cache
        /\ \A k \in DOMAIN hash_cache :
              /\ Sharers(k) # {}
              /\ hash_cache[k] = self_cache[Last(Sharers(k))]
        /\ (result # None /\ url \notin DOMAIN hash_cache) => result = Return(None)

C10_Witness ==
    /\ Called
    /\ Len(self_cache) = 2
    /\ self_cache[1].key = Key(TRUE, TRUE, "A")
    /\ self_cache[2].key = Key(TRUE, TRUE, "B")
    /\ hash_cache[Key(TRUE, TRUE, "")] = self_cache[2]
    /\ hash_cache[Key(TRUE, TRUE, "A")] = self_cache[1]
    /\ url = Key(FALSE, FALSE, "s/1/1/A")
    /\ result = Return(None)

====
